---- MODULE Spec2Model ----
(***************************************************************************)
(* AdaptiveEmbedding and AdaptiveLogSoftmax of                             *)
(* examples/wt103/utils/adaptive_modules.py as a state machine: the two    *)
(* constructors, and the two forward passes with their per-cluster loops.  *)
(*                                                                         *)
(* Lists are Python lists: TLA+ sequences read 0-based through At.         *)
(* Tensor entries are symbolic terms that record which rows, columns and   *)
(* tables they were computed from, so that two outputs are equal exactly   *)
(* when they were computed from the same operands.                         *)
(***************************************************************************)
EXTENDS Integers, Sequences, FiniteSets, TLC

\* Bounds of the explored inputs.
MaxTok == 3      \* n_token ranges over 1..MaxTok
MaxCut == 2      \* at most MaxCut user cutoffs (MaxCut + 1 clusters)
MaxBatch == 2    \* at most MaxBatch ids / targets in one call

VARIABLES
  cls,             \* which class the object is an instance of
  pc,              \* where the object / the running call is
  err,             \* the error a constructor or a call ended with ("" if none)
  n_token, cutoffs, cutoff_ends,              \* attributes of both classes
  shortlist_size, n_clusters, head_size,      \* AdaptiveLogSoftmax attributes
  layer_sizes,     \* rows of emb_layers[i] / out_features of out_layers[i]
  keep_order,      \* self.keep_order
  inp_flat,        \* AdaptiveEmbedding.forward: the flattened ids
  emb_flat,        \* AdaptiveEmbedding.forward: the output rows
  hidden,          \* AdaptiveLogSoftmax.forward: the rows of hidden
  target,          \* AdaptiveLogSoftmax.forward: the targets
  kw_keep_order,   \* AdaptiveLogSoftmax.forward: the keep_order argument
  head_logprob,    \* AdaptiveLogSoftmax.forward: rows of head_logprob
  nll,             \* AdaptiveLogSoftmax.forward: the result tensor
  i, offset,       \* loop index and running offset of the per-cluster loop
  writes,          \* how many times each output position has been written
  head_reads       \* the <<cluster, head column>> pairs read by the call

obj_vars == <<cls, n_token, cutoffs, cutoff_ends, shortlist_size, n_clusters,
              head_size, layer_sizes, keep_order>>
call_vars == <<inp_flat, emb_flat, hidden, target, kw_keep_order, head_logprob,
               nll, i, offset, writes, head_reads>>
vars == <<pc, err, obj_vars, call_vars>>

----------------------------------------------------------------------------
\* Python lists and tensor primitives

\* s[k] of a Python list
At(s, k) == s[k + 1]

\* range(n) as a list
Range(n) == [k \in 1..n |-> k - 1]

\* all lists over S of length at most n
ListsUpTo(S, n) == UNION {[1..k -> S] : k \in 0..n}

\* a negative Python index counts from the end
PyIndex(k, size) == IF k < 0 THEN k + size ELSE k

\* whether an index is inside a dimension of the given size
InBounds(k, size) == k >= 0 /\ k < size

\* variants of Mask with one comparison wrong
Mask_inclusive(t, l_idx, r_idx) ==
  [k \in 1..Len(t) |-> t[k] >= l_idx /\ t[k] <= r_idx]
Mask_no_lower(t, l_idx, r_idx) == [k \in 1..Len(t) |-> t[k] < r_idx]

\* (t >= l_idx) & (t < r_idx), elementwise
Mask(t, l_idx, r_idx) == [k \in 1..Len(t) |-> t[k] >= l_idx /\ t[k] < r_idx]

RECURSIVE Ascending(_)
Ascending(S) ==
  IF S = {} THEN <<>>
  ELSE LET m == CHOOSE x \in S : \A y \in S : x <= y
       IN <<m>> \o Ascending(S \ {m})

\* mask.nonzero().squeeze(): the positions where the mask is true, ascending
nonzero(mask) == Ascending({k - 1 : k \in {q \in 1..Len(mask) : mask[q]}})

\* variant of Shift that leaves the ids unshifted
Shift_none(x, l_idx) == x

\* x - l_idx, elementwise
Shift(x, l_idx) == [k \in 1..Len(x) |-> x[k] - l_idx]

\* src.index_select(0, idx)
index_select(src, idx) == [k \in 1..Len(idx) |-> At(src, idx[k])]

\* dst.index_copy_(0, idx, src): row idx[k] of dst becomes src[k]
index_copy(dst, idx, src) ==
  [p \in 1..Len(dst) |->
     IF \E k \in 1..Len(idx) : idx[k] = p - 1
     THEN src[CHOOSE k \in 1..Len(idx) :
                 idx[k] = p - 1 /\ \A q \in 1..Len(idx) : idx[q] = p - 1 => q <= k]
     ELSE dst[p]]

\* variant of slice_copy that ignores the offset
slice_copy_at_zero(dst, off, src) ==
  [p \in 1..Len(dst) |-> IF p - 1 < Len(src) THEN src[p] ELSE dst[p]]

\* dst[off:off+len(src)].copy_(src)
slice_copy(dst, off, src) ==
  [p \in 1..Len(dst) |->
     IF p - 1 >= off /\ p - 1 < off + Len(src) THEN src[p - off] ELSE dst[p]]

\* the write counts after positions idx were written once more
Bump(w, idx) ==
  [p \in 1..Len(w) |-> w[p] + Cardinality({k \in 1..Len(idx) : idx[k] = p - 1})]

----------------------------------------------------------------------------
\* Symbolic tensor entries

\* an entry of torch.zeros
Zero == [neg |-> FALSE, hrow |-> -1, col |-> -1, cl |-> -1, trow |-> -1, tidx |-> -1]

\* head_logprob[hrow, col]
HeadTerm(hrow, c) ==
  [neg |-> FALSE, hrow |-> hrow, col |-> c, cl |-> 0, trow |-> -1, tidx |-> -1]

\* head_logprob[hrow, col] + log_softmax(logit of cluster c on hidden[trow])[tidx]
TailTerm(hrow, c, k, trow, tidx) ==
  [neg |-> FALSE, hrow |-> hrow, col |-> c, cl |-> k, trow |-> trow, tidx |-> tidx]

\* -x
Neg(x) == IF x = Zero THEN Zero ELSE [x EXCEPT !.neg = ~x.neg]

\* a zero row of emb_flat
ZeroRow == [tab |-> -1, idx |-> -1, proj |-> -1, scaled |-> FALSE]

\* F.linear(emb_layers[tab](idx), emb_projs[proj])
EmbRow(tab, idx, proj) == [tab |-> tab, idx |-> idx, proj |-> proj, scaled |-> FALSE]

\* row * emb_scale
Scale(row) == IF row = ZeroRow THEN ZeroRow ELSE [row EXCEPT !.scaled = TRUE]

----------------------------------------------------------------------------
\* Construction

\* self.cutoffs = cutoffs + [n_token]
Cutoffs(c, n) == c \o <<n>>

\* variant of CutoffEnds without the leading 0
CutoffEnds_no_zero(cs) == cs

\* self.cutoff_ends = [0] + self.cutoffs
CutoffEnds(cs) == <<0>> \o cs

\* nn.Embedding(r_idx - l_idx, d_emb_i) for each cluster
EmbSizes(ends) == [k \in 1..(Len(ends) - 1) |-> ends[k + 1] - ends[k]]

\* variant of OutSizes whose head has no extra columns
OutSizes_no_extra(ends, ncl) == [k \in 1..(Len(ends) - 1) |-> ends[k + 1] - ends[k]]

\* output_size_i of nn.Linear(d_emb_i, output_size_i) for each cluster
OutSizes(ends, ncl) ==
  [k \in 1..(Len(ends) - 1) |->
     IF k - 1 > 0 THEN ends[k + 1] - ends[k] ELSE (ends[k + 1] - ends[k]) + ncl]

\* a table or layer with a negative size cannot be allocated
Allocatable(sizes) == \A k \in 1..Len(sizes) : sizes[k] >= 0

NoCall ==
  /\ inp_flat = <<>> /\ emb_flat = <<>> /\ hidden = <<>> /\ target = <<>>
  /\ kw_keep_order = FALSE /\ head_logprob = <<>> /\ nll = <<>>
  /\ i = 0 /\ offset = 0 /\ writes = <<>> /\ head_reads = {}

Init ==
  /\ cls = "none" /\ pc = "new" /\ err = ""
  /\ n_token = 0 /\ cutoffs = <<>> /\ cutoff_ends = <<>>
  /\ shortlist_size = 0 /\ n_clusters = 0 /\ head_size = 0
  /\ layer_sizes = <<>> /\ keep_order = FALSE
  /\ NoCall

CutoffValues == (-1)..(MaxTok + 1)

AdaptiveEmbedding_init(n, c) ==
  /\ pc = "new"
  /\ cls' = "AdaptiveEmbedding"
  /\ n_token' = n
  /\ cutoffs' = Cutoffs(c, n)
  /\ cutoff_ends' = CutoffEnds(cutoffs')
  /\ layer_sizes' = EmbSizes(cutoff_ends')
  /\ IF Allocatable(layer_sizes')
     THEN pc' = "ready" /\ err' = ""
     ELSE pc' = "failed" /\ err' = "negative dimension"
  /\ UNCHANGED <<shortlist_size, n_clusters, head_size, keep_order, call_vars>>

AdaptiveLogSoftmax_init(n, c, ko) ==
  /\ pc = "new"
  /\ cls' = "AdaptiveLogSoftmax"
  /\ n_token' = n
  /\ cutoffs' = Cutoffs(c, n)
  /\ cutoff_ends' = CutoffEnds(cutoffs')
  /\ shortlist_size' = At(cutoffs', 0)
  /\ n_clusters' = Len(cutoffs') - 1
  /\ head_size' = shortlist_size' + n_clusters'
  /\ layer_sizes' = OutSizes(cutoff_ends', n_clusters')
  /\ keep_order' = ko
  /\ IF Allocatable(layer_sizes')
     THEN pc' = "ready" /\ err' = ""
     ELSE pc' = "failed" /\ err' = "negative dimension"
  /\ UNCHANGED call_vars

Construct ==
  /\ pc = "new"
  /\ \E n \in 1..MaxTok, c \in ListsUpTo(CutoffValues, MaxCut) :
        \/ AdaptiveEmbedding_init(n, c)
        \/ \E ko \in BOOLEAN : AdaptiveLogSoftmax_init(n, c, ko)

----------------------------------------------------------------------------
\* AdaptiveEmbedding.forward

\* the ids a caller may pass: the vocabulary, one id below it and one above
Ids == (-1)..n_token

\* torch.zeros([inp_flat.size(0), d_proj])
ZeroRows(n) == [k \in 1..n |-> ZeroRow]

\* emb_layers[tab](inp_i) followed by F.linear(., emb_projs[tab])
Embed(tab, inp_i) == [k \in 1..Len(inp_i) |-> EmbRow(tab, inp_i[k], tab)]

\* embed.mul_(self.emb_scale)
MulScale(rows) == [k \in 1..Len(rows) |-> Scale(rows[k])]

EmbForward(inp) ==
  /\ cls = "AdaptiveEmbedding"
  /\ pc = "ready"
  /\ inp_flat' = inp
  /\ emb_flat' = ZeroRows(Len(inp))
  /\ writes' = [k \in 1..Len(inp) |-> 0]
  /\ i' = 0
  /\ pc' = "loop" /\ err' = ""
  /\ hidden' = <<>> /\ target' = <<>> /\ kw_keep_order' = FALSE
  /\ head_logprob' = <<>> /\ nll' = <<>> /\ offset' = 0 /\ head_reads' = {}
  /\ UNCHANGED obj_vars

\* one iteration of "for i in range(len(self.cutoffs))"
EmbCluster ==
  /\ cls = "AdaptiveEmbedding"
  /\ pc = "loop"
  /\ i < Len(cutoffs)
  /\ LET l_idx == At(cutoff_ends, i)
         r_idx == At(cutoff_ends, i + 1)
         mask_i == Mask(inp_flat, l_idx, r_idx)
         indices_i == nonzero(mask_i)
         inp_i == Shift(index_select(inp_flat, indices_i), l_idx)
         emb_i == Embed(i, inp_i)
     IN IF Len(indices_i) = 0
        THEN /\ i' = i + 1
             /\ UNCHANGED <<pc, err, emb_flat, writes>>
        ELSE IF \E k \in 1..Len(inp_i) : ~InBounds(inp_i[k], At(layer_sizes, i))
        THEN /\ pc' = "raised" /\ err' = "index out of range"
             /\ UNCHANGED <<i, emb_flat, writes>>
        ELSE /\ emb_flat' = index_copy(emb_flat, indices_i, emb_i)
             /\ writes' = Bump(writes, indices_i)
             /\ i' = i + 1
             /\ UNCHANGED <<pc, err>>
  /\ UNCHANGED <<obj_vars, inp_flat, hidden, target, kw_keep_order,
                 head_logprob, nll, offset, head_reads>>

\* the loop is over: scale and return
EmbReturn ==
  /\ cls = "AdaptiveEmbedding"
  /\ pc = "loop"
  /\ i = Len(cutoffs)
  /\ emb_flat' = MulScale(emb_flat)
  /\ pc' = "done"
  /\ UNCHANGED <<err, obj_vars, inp_flat, hidden, target, kw_keep_order,
                 head_logprob, nll, i, offset, writes, head_reads>>

EmbCall ==
  /\ cls = "AdaptiveEmbedding" /\ pc = "ready"
  /\ \E inp \in ListsUpTo(Ids, MaxBatch) : EmbForward(inp)

----------------------------------------------------------------------------
\* AdaptiveLogSoftmax.forward

\* torch.zeros_like(target)
Zeros(n) == [k \in 1..n |-> Zero]

\* log_softmax of the logits of layer k, row by row: each row keeps which row
\* of hidden it was computed from and has out_features(layer k) columns
LogProbRows(hid, k) ==
  [q \in 1..Len(hid) |-> [src |-> hid[q], layer |-> k, ncols |-> At(layer_sizes, k)]]

\* whether rows.gather(1, idx[:, None]) stays inside the rows
GatherOk(rows, idx) == \A q \in 1..Len(rows) : InBounds(idx[q], rows[q].ncols)

\* variant of GoToColumn that numbers the extra columns in cluster order
GoToColumn_forward(k) == shortlist_size + k - 1

\* the head column that holds the "go to cluster k" logit: head_logprob_i[:, -k]
GoToColumn(k) == PyIndex(-k, At(layer_sizes, 0))

\* logprob_i of the head cluster
HeadLogprobI(head_rows, target_i) ==
  [q \in 1..Len(head_rows) |-> HeadTerm(head_rows[q].src, target_i[q])]

\* logprob_i of tail cluster k
TailLogprobI(head_rows, tail_rows, k, target_i) ==
  [q \in 1..Len(head_rows) |->
     TailTerm(head_rows[q].src, GoToColumn(k), k, tail_rows[q].src, target_i[q])]

\* variant of NegAll that forgets the sign
NegAll_forgot(lp) == lp

\* -logprob_i
NegAll(lp) == [q \in 1..Len(lp) |-> Neg(lp[q])]

\* variant of KeepOrder that ignores the argument of the call
KeepOrder_ctor_only == keep_order

\* variant of SizeMismatch that accepts a hidden shorter than target
SizeMismatch_greater(h, t) == Len(h) > Len(t)

\* (hasattr(self, 'keep_order') and self.keep_order) or keep_order
KeepOrder == keep_order \/ kw_keep_order

\* hidden.size(0) != target.size(0)
SizeMismatch(h, t) == Len(h) # Len(t)

SmForward(h, t, ko) ==
  /\ cls = "AdaptiveLogSoftmax"
  /\ pc = "ready"
  /\ hidden' = h /\ target' = t /\ kw_keep_order' = ko
  /\ i' = 0 /\ offset' = 0 /\ head_reads' = {}
  /\ inp_flat' = <<>> /\ emb_flat' = <<>>
  /\ IF SizeMismatch(h, t)
     THEN /\ pc' = "raised" /\ err' = "size mismatch"
          /\ head_logprob' = <<>> /\ nll' = <<>> /\ writes' = <<>>
     ELSE /\ head_logprob' = LogProbRows(h, 0)
          /\ IF n_clusters = 0
             THEN IF GatherOk(head_logprob', t)
                  THEN /\ nll' = NegAll(HeadLogprobI(head_logprob', t))
                       /\ writes' = [k \in 1..Len(t) |-> 1]
                       /\ pc' = "done" /\ err' = ""
                  ELSE /\ nll' = <<>> /\ writes' = <<>>
                       /\ pc' = "raised" /\ err' = "index out of range"
             ELSE /\ nll' = Zeros(Len(t))
                  /\ writes' = [k \in 1..Len(t) |-> 0]
                  /\ pc' = "loop" /\ err' = ""
  /\ UNCHANGED obj_vars

\* one iteration of "for i in range(len(cutoff_values) - 1)"
SmCluster ==
  /\ cls = "AdaptiveLogSoftmax"
  /\ pc = "loop"
  /\ LET cutoff_values == <<0>> \o cutoffs
     IN
     /\ i < Len(cutoff_values) - 1
     /\ LET l_idx == At(cutoff_values, i)
            r_idx == At(cutoff_values, i + 1)
            mask_i == Mask(target, l_idx, r_idx)
            indices_i == nonzero(mask_i)
            target_i == Shift(index_select(target, indices_i), l_idx)
            head_logprob_i == index_select(head_logprob, indices_i)
            hidden_i == index_select(hidden, indices_i)
            tail_logprob_i == LogProbRows(hidden_i, i)
            ok == IF i = 0
                  THEN GatherOk(head_logprob_i, target_i)
                  ELSE /\ InBounds(GoToColumn(i), At(layer_sizes, 0))
                       /\ GatherOk(tail_logprob_i, target_i)
            logprob_i == IF i = 0
                         THEN HeadLogprobI(head_logprob_i, target_i)
                         ELSE TailLogprobI(head_logprob_i, tail_logprob_i, i, target_i)
            n_i == Len(indices_i)
        IN IF n_i = 0
           THEN /\ i' = i + 1
                /\ UNCHANGED <<pc, err, nll, offset, writes, head_reads>>
           ELSE IF ~ok
           THEN /\ pc' = "raised" /\ err' = "index out of range"
                /\ UNCHANGED <<i, nll, offset, writes, head_reads>>
           ELSE IF KeepOrder
           THEN /\ nll' = index_copy(nll, indices_i, NegAll(logprob_i))
                /\ writes' = Bump(writes, indices_i)
                /\ head_reads' = head_reads \cup {<<i, logprob_i[k].col>> : k \in 1..n_i}
                /\ offset' = offset + n_i
                /\ i' = i + 1
                /\ UNCHANGED <<pc, err>>
           ELSE IF offset + n_i > Len(nll)
           THEN /\ pc' = "raised" /\ err' = "shape mismatch"
                /\ UNCHANGED <<i, nll, offset, writes, head_reads>>
           ELSE /\ nll' = slice_copy(nll, offset, NegAll(logprob_i))
                /\ writes' = Bump(writes, [k \in 1..n_i |-> offset + k - 1])
                /\ head_reads' = head_reads \cup {<<i, logprob_i[k].col>> : k \in 1..n_i}
                /\ offset' = offset + n_i
                /\ i' = i + 1
                /\ UNCHANGED <<pc, err>>
  /\ UNCHANGED <<obj_vars, inp_flat, emb_flat, hidden, target, kw_keep_order,
                 head_logprob>>

\* the loop is over: return nll
SmReturn ==
  /\ cls = "AdaptiveLogSoftmax"
  /\ pc = "loop"
  /\ i = Len(cutoffs)
  /\ pc' = "done"
  /\ UNCHANGED <<err, obj_vars, call_vars>>

SmCall ==
  /\ cls = "AdaptiveLogSoftmax" /\ pc = "ready"
  /\ \E nh \in 0..MaxBatch, t \in ListsUpTo(Ids, MaxBatch), ko \in BOOLEAN :
        SmForward(Range(nh), t, ko)

Next ==
  \/ Construct
  \/ EmbCall \/ EmbCluster \/ EmbReturn
  \/ SmCall \/ SmCluster \/ SmReturn

Spec == Init /\ [][Next]_vars

----------------------------------------------------------------------------
\* What the properties below are stated in

Constructed == pc \notin {"new", "failed"}
Called == pc \in {"loop", "done", "raised"}
IsEmb == cls = "AdaptiveEmbedding"
IsSm == cls = "AdaptiveLogSoftmax"

\* the clusters, and whether an id lies in the range of cluster k
Clusters == 0..(Len(cutoff_ends) - 2)
InCluster(id, k) == At(cutoff_ends, k) <= id /\ id < At(cutoff_ends, k + 1)
ClustersOf(id) == {k \in Clusters : InCluster(id, k)}
ClusterOf(id) == CHOOSE k \in Clusters : InCluster(id, k)

\* the ids of the vocabulary, and a window of ids around every boundary
InVocab(id) == 0 <= id /\ id < n_token
Window == (-2)..(MaxTok + 2)

\* the ranges [cutoff_ends[k], cutoff_ends[k+1]) are well formed and every id
\* of [0, n_token) lies in exactly one of them, every other id in none
Partitions ==
  /\ \A k \in Clusters : At(cutoff_ends, k) <= At(cutoff_ends, k + 1)
  /\ \A id \in Window :
       Cardinality(ClustersOf(id)) = IF InVocab(id) THEN 1 ELSE 0

\* the cutoffs handed to the constructor (self.cutoffs without the appended
\* n_token) are nondecreasing and lie in [0, n_token]
UserCutoffs == SubSeq(cutoffs, 1, Len(cutoffs) - 1)
CutoffsInOrder ==
  /\ \A k \in 1..Len(UserCutoffs) : 0 <= UserCutoffs[k] /\ UserCutoffs[k] <= n_token
  /\ \A k \in 1..(Len(UserCutoffs) - 1) : UserCutoffs[k] <= UserCutoffs[k + 1]

\* order preservation was requested at construction or on the call
OrderRequested == keep_order \/ kw_keep_order

\* the positions of a batch
Positions(t) == 0..(Len(t) - 1)
AllInVocab(t) == \A p \in Positions(t) : InVocab(At(t, p))

----------------------------------------------------------------------------
\* C4 as stated: whatever cutoffs and n_token the constructor was given, the
\* cutoff_ends of the object it built partition [0, n_token).
C4_AnyCutoffsPartition == Constructed => Partitions

\* C4 amended: for cutoffs that are nondecreasing and lie in [0, n_token] the
\* constructor succeeds and cutoff_ends partitions [0, n_token) into
\* contiguous ranges: every id of the vocabulary lies in exactly one cluster.
C4_OrderedCutoffsPartition ==
  (pc # "new" /\ CutoffsInOrder) => (pc # "failed" /\ Partitions)

\* three non-empty clusters were built
C4_Witness ==
  /\ pc = "ready" /\ CutoffsInOrder /\ Len(cutoff_ends) = 4
  /\ \A k \in Clusters : At(cutoff_ends, k) < At(cutoff_ends, k + 1)

----------------------------------------------------------------------------
\* C8: forward of AdaptiveLogSoftmax ends with the size-mismatch error exactly
\* when hidden and target disagree on the batch size, and then no logit has
\* been computed and no output has been allocated or written.
C8_SizeMismatch ==
  (IsSm /\ Called) =>
     /\ (err = "size mismatch") <=> (Len(hidden) # Len(target))
     /\ (Len(hidden) # Len(target)) =>
          /\ pc = "raised"
          /\ head_logprob = <<>> /\ nll = <<>> /\ writes = <<>> /\ head_reads = {}

\* a call with two hidden rows and one target was refused
C8_Witness ==
  /\ IsSm /\ pc = "raised" /\ err = "size mismatch"
  /\ Len(hidden) = 2 /\ Len(target) = 1

----------------------------------------------------------------------------
\* C5: with empty cutoffs (one cluster) and targets of the vocabulary, the
\* result at position j is -head_logprob[j][target[j]], the head having
\* n_token columns, whatever the keep_order flags are.
C5_SingleCluster ==
  (IsSm /\ Called /\ n_clusters = 0 /\ Len(hidden) = Len(target) /\ AllInVocab(target)) =>
     /\ pc = "done"
     /\ Len(nll) = Len(target)
     /\ \A p \in Positions(target) :
          /\ At(head_logprob, p).src = At(hidden, p)
          /\ At(head_logprob, p).ncols = n_token
          /\ At(nll, p) = [neg |-> TRUE, hrow |-> At(hidden, p), col |-> At(target, p),
                           cl |-> 0, trow |-> -1, tidx |-> -1]

\* a single-cluster call without keep_order returned two different targets
C5_Witness ==
  /\ IsSm /\ pc = "done" /\ n_clusters = 0 /\ ~OrderRequested
  /\ Len(target) = 2 /\ At(target, 0) > At(target, 1)

----------------------------------------------------------------------------
\* The negative log-likelihood of one example, as the two-level factorisation
\* defines it: -head_logprob[h][t] for a target of cluster 0, and
\* -(head_logprob[h][head_size - k] + tail_logprob_k[h][t - cutoff_ends[k]])
\* for a target of tail cluster k.
ExpectedNLL(h, t) ==
  LET k == ClusterOf(t)
  IN IF k = 0
     THEN [neg |-> TRUE, hrow |-> h, col |-> t, cl |-> 0, trow |-> -1, tidx |-> -1]
     ELSE [neg |-> TRUE, hrow |-> h, col |-> head_size - k, cl |-> k,
           trow |-> h, tidx |-> t - At(cutoff_ends, k)]

\* a call of AdaptiveLogSoftmax.forward that passed the size check, on an
\* object with tail clusters
TailCall ==
  /\ IsSm /\ Called /\ Len(hidden) = Len(target)
  /\ n_clusters >= 1

----------------------------------------------------------------------------
\* C1: with keep_order set at construction or on the call, more than one
\* cluster (the clusters partitioning the vocabulary) and every target in
\* the vocabulary, the call raises nothing and the result at position j is
\* the negative log-likelihood of hidden[j] and target[j], whatever clusters
\* the targets fall in and in whatever order.
C1_KeepOrder ==
  (TailCall /\ Partitions /\ OrderRequested /\ AllInVocab(target)) =>
     /\ pc # "raised"
     /\ pc = "done" =>
          /\ Len(nll) = Len(target)
          /\ \A p \in Positions(target) :
               At(nll, p) = ExpectedNLL(At(hidden, p), At(target, p))

\* an order-preserving call returned a tail target placed before a head target
C1_Witness ==
  /\ TailCall /\ OrderRequested /\ pc = "done" /\ Len(target) = 2
  /\ InVocab(At(target, 0)) /\ InVocab(At(target, 1))
  /\ ClusterOf(At(target, 0)) > ClusterOf(At(target, 1))

----------------------------------------------------------------------------
\* C2: with more than one cluster, the value the call produces for an example
\* whose target lies in tail cluster k is
\* -(head_logprob[head_size - k] + tail_logprob_k[t - cutoff_ends[k]]), and
\* for a target of cluster 0 it is -head_logprob[t]; the value is in the
\* result whether or not the order is kept.
C2_TwoTermValue ==
  (TailCall /\ pc = "done") =>
     \A p \in Positions(target) :
        InVocab(At(target, p)) =>
           \E q \in Positions(nll) :
              At(nll, q) = ExpectedNLL(At(hidden, p), At(target, p))

\* a call returned with a target in the second tail cluster
C2_Witness ==
  /\ TailCall /\ pc = "done" /\ n_clusters = 2
  /\ \E p \in Positions(target) :
        InVocab(At(target, p)) /\ ClusterOf(At(target, p)) = 2

----------------------------------------------------------------------------
\* C9: without keep_order (neither flag), with more than one cluster (the
\* clusters partitioning the vocabulary) and every target in the vocabulary,
\* the call raises nothing and the results fill the output from slot 0 in
\* cluster-processing order: after the clusters below i, offset is the number
\* of examples of those clusters, slot k < offset holds the value of the k-th
\* example in (cluster, position) order and has been written once, the slots
\* from offset on are untouched, and at the end offset is N.
SortKey(p, q) ==
  \/ ClusterOf(At(target, p)) < ClusterOf(At(target, q))
  \/ ClusterOf(At(target, p)) = ClusterOf(At(target, q)) /\ p < q
Rank(p) == Cardinality({q \in Positions(target) : SortKey(q, p)})
Processed == {p \in Positions(target) : ClusterOf(At(target, p)) < i}

C9_ClusterOrder ==
  (TailCall /\ Partitions /\ ~OrderRequested /\ AllInVocab(target)) =>
     /\ pc # "raised"
     /\ offset = Cardinality(Processed)
     /\ \A p \in Processed :
          At(nll, Rank(p)) = ExpectedNLL(At(hidden, p), At(target, p))
     /\ \A q \in Positions(nll) :
          /\ At(writes, q) = IF q < offset THEN 1 ELSE 0
          /\ q >= offset => At(nll, q) = Zero
     /\ pc = "done" => offset = Len(target)

\* a call without keep_order returned a tail target in slot 1 that came in
\* at position 0
C9_Witness ==
  /\ TailCall /\ ~OrderRequested /\ pc = "done" /\ Len(target) = 2
  /\ AllInVocab(target)
  /\ ClusterOf(At(target, 0)) > ClusterOf(At(target, 1))
  /\ At(nll, 1).hrow = At(hidden, 0)

----------------------------------------------------------------------------
\* C10: with tail clusters (the clusters partitioning the vocabulary), the
\* head column read as the "go to cluster k" logit is head_size - k, is a
\* column of the head, lies in [shortlist_size, head_size), differs from
\* one tail cluster to the next, so that the n_clusters extra columns of the
\* head are exactly the go-to columns; and the columns a call reads for
\* targets of cluster 0 are below shortlist_size.
C10_GoToColumns ==
  (IsSm /\ Constructed /\ n_clusters >= 1 /\ Partitions) =>
     /\ \A k \in 1..n_clusters :
          /\ GoToColumn(k) = head_size - k
          /\ InBounds(GoToColumn(k), At(layer_sizes, 0))
          /\ shortlist_size <= GoToColumn(k) /\ GoToColumn(k) < head_size
     /\ \A k1, k2 \in 1..n_clusters : GoToColumn(k1) = GoToColumn(k2) => k1 = k2
     /\ {GoToColumn(k) : k \in 1..n_clusters} = shortlist_size..(head_size - 1)
     /\ \A r \in head_reads :
          /\ r[1] = 0 => (0 <= r[2] /\ r[2] < shortlist_size)
          /\ r[1] >= 1 => r[2] = GoToColumn(r[1])

\* a call returned that read the head for a target of cluster 0 and for a
\* target of tail cluster 2
C10_Witness ==
  /\ IsSm /\ pc = "done" /\ n_clusters = 2 /\ Partitions
  /\ \E r1, r2 \in head_reads : r1[1] = 0 /\ r2[1] = 2

----------------------------------------------------------------------------
\* The embedding of one id: sqrt(d_proj) * projection_k(table_k[id - cutoff_ends[k]])
\* for the cluster k the id lies in.
ExpectedEmbedding(id) ==
  LET k == ClusterOf(id)
  IN [tab |-> k, idx |-> id - At(cutoff_ends, k), proj |-> k, scaled |-> TRUE]

\* C3: AdaptiveEmbedding.forward returns, for every id of the vocabulary, the
\* scaled projection of the row of its cluster's table, whatever its position
\* and whatever the other ids of the batch are, and the call writes the
\* position exactly once.
C3_EmbeddingRows ==
  (IsEmb /\ Called) =>
     /\ pc # "raised"
     /\ pc = "done" =>
          /\ Len(emb_flat) = Len(inp_flat)
          /\ \A p \in Positions(inp_flat) :
               InVocab(At(inp_flat, p)) =>
                  /\ At(emb_flat, p) = ExpectedEmbedding(At(inp_flat, p))
                  /\ At(writes, p) = 1

\* a call returned for a batch of ids of two clusters, the later cluster first
C3_Witness ==
  /\ IsEmb /\ pc = "done" /\ Len(inp_flat) = 2 /\ AllInVocab(inp_flat)
  /\ ClusterOf(At(inp_flat, 0)) > ClusterOf(At(inp_flat, 1))
  /\ At(cutoff_ends, ClusterOf(At(inp_flat, 0))) > 0

----------------------------------------------------------------------------
\* C7: AdaptiveEmbedding.forward raises nothing for an id outside the
\* vocabulary: the id matches no cluster, its row is never written and is
\* zero in the result, and the ids of the vocabulary in the same batch get
\* their rows written once, as without it.
C7_OutOfRangeIdIsZero ==
  (IsEmb /\ Called /\ ~AllInVocab(inp_flat)) =>
     /\ pc # "raised" /\ err = ""
     /\ \A p \in Positions(inp_flat) :
          IF InVocab(At(inp_flat, p))
          THEN pc = "done" => (At(emb_flat, p) # ZeroRow /\ At(writes, p) = 1)
          ELSE At(emb_flat, p) = ZeroRow /\ At(writes, p) = 0

\* a call returned for a batch holding n_token (too large) and an id of the
\* vocabulary
C7_Witness ==
  /\ IsEmb /\ pc = "done" /\ Len(inp_flat) = 2
  /\ At(inp_flat, 0) = n_token /\ InVocab(At(inp_flat, 1))

\* a call returned for a batch holding a negative id
C7_WitnessNegative ==
  /\ IsEmb /\ pc = "done" /\ \E p \in Positions(inp_flat) : At(inp_flat, p) < 0

----------------------------------------------------------------------------
\* C6 as stated: a target outside the vocabulary never makes
\* AdaptiveLogSoftmax.forward raise, in any cluster configuration, empty
\* cutoffs included.
C6_OutOfRangeNeverRaises ==
  (IsSm /\ Called /\ Len(hidden) = Len(target) /\ Partitions /\ ~AllInVocab(target)) =>
     pc # "raised"

\* C6 amended: with more than one cluster a target outside the vocabulary
\* raises nothing: it matches no cluster, nothing is computed or written for
\* it, and the call returns with the results of the other examples only.
\* With empty cutoffs the target is handed to gather as a column of
\* head_logprob and the call ends with an index error, no result returned.
C6_OutOfRangeSkippedWithTails ==
  (IsSm /\ Called /\ Len(hidden) = Len(target) /\ Partitions /\ ~AllInVocab(target)) =>
     IF n_clusters >= 1
     THEN /\ pc # "raised" /\ err = ""
          /\ \A q \in Positions(nll) :
               At(nll, q) # Zero => InVocab(At(target, At(nll, q).hrow))
          /\ pc = "done" =>
               /\ offset = Cardinality({p \in Positions(target) : InVocab(At(target, p))})
               /\ Cardinality({q \in Positions(nll) : At(nll, q) # Zero}) = offset
               /\ OrderRequested =>
                    \A p \in Positions(target) :
                       ~InVocab(At(target, p)) => (At(nll, p) = Zero /\ At(writes, p) = 0)
     ELSE /\ pc = "raised" /\ err = "index out of range"
          /\ nll = <<>>

\* a call on an object with tail clusters returned although one of its two
\* targets was outside the vocabulary
C6_Witness ==
  /\ IsSm /\ pc = "done" /\ n_clusters >= 1 /\ Partitions /\ Len(target) = 2
  /\ ~InVocab(At(target, 0)) /\ InVocab(At(target, 1))
====
